---- MODULE Spec2Model ----
(***************************************************************************)
(* Command loading core of azure-cli-core (azure/cli/core/__init__.py):    *)
(*   - MainCommandsLoader.load_command_table: targeted module load,        *)
(*     fallback scan over the installed command modules, extension load;   *)
(*   - AzCommandsLoader._cli_command: the command registration primitive;   *)
(*   - AzCommandsLoader.get_op_handler: operation reference resolution.     *)
(* Python's None is the string "None"; a dict is a function whose DOMAIN   *)
(* is its key set; a str is a sequence of one-character strings.           *)
(***************************************************************************)
EXTENDS Integers, Sequences, FiniteSets, TLC

None == "None"

(***************************************************************************)
(* The installation the loader runs in.                                    *)
(***************************************************************************)
\* command names the units of this installation may register
CmdNames == {"c1", "c2"}

\* pkgutil.iter_modules over azure.cli.command_modules, in discovery order
NamespaceModules == <<"m1", "d1", "m2">>

\* azure.cli.core.commands.BLACKLISTED_MODS
BLACKLISTED_MODS == {"d1"}

\* azure.cli.core.extension.get_extension_names(), in discovery order
InstalledExtensions == <<"e1", "e2">>

\* first tokens the user may type: the installed modules, a denylisted one,
\* and a token that names no module
RootCommands == {"m1", "m2", "d1", "zz"}

\* args of load_command_table: only args[0] is read by the loader itself
ArgsValues == {<<>>} \cup {<<r>> : r \in RootCommands}

\* what loading one unit (module or extension) does: it returns a command
\* table, raises ModuleNotFoundError, or raises another exception; cmds of
\* a unit that raises are the commands its own loader had built by then
UnitBehaviours ==
    {[outcome |-> "ok", cmds |-> s] : s \in SUBSET CmdNames}
        \cup {[outcome |-> "notfound", cmds |-> {}]}
        \cup {[outcome |-> "error", cmds |-> s] : s \in {{}, {"c1"}}}

Range(s) == {s[i] : i \in DOMAIN s}

VARIABLES
    \* MainCommandsLoader
    command_table,      \* self.command_table: name -> Command
    cmd_to_mod_map,     \* self.cmd_to_mod_map: name -> module name
    pc,                 \* position inside load_command_table
    args,               \* args of the running / last call
    installed_command_modules,  \* local of _update_command_table_from_modules
    scan_i,             \* index of the fallback scan's for loop
    extensions,         \* local of _update_command_table_from_extensions
    ext_i,              \* index of the extension for loop
    sys_path,           \* directories appended to sys.path
    \* the installation
    namespace_ok,       \* azure.cli.command_modules can be imported
    modBehaviour,       \* module name -> what loading it does
    extBehaviour,       \* extension module name -> what loading it does
    \* what the running / last call did (observations, reset at each call)
    attempts,           \* sequence of [phase, unit, outcome]
    telemetry,          \* fault types handed to telemetry.set_exception
    logs                \* sequence of [level, unit]

loaderVars == <<command_table, cmd_to_mod_map, pc, args, installed_command_modules,
                scan_i, extensions, ext_i, sys_path, namespace_ok, modBehaviour,
                extBehaviour, attempts, telemetry, logs>>

VARIABLES
    \* an AzCommandsLoader
    az_command_table,   \* self.command_table: name -> command
    min_profile,        \* self.min_profile
    max_profile,        \* self.max_profile
    cloud_profile,      \* self.cli_ctx.cloud.profile
    cli_call            \* the last _cli_command call: its arguments, the table
                        \* before it, and how it ended

azVars == <<az_command_table, min_profile, max_profile, cloud_profile, cli_call>>

VARIABLES
    \* one get_op_handler call
    operation,          \* its argument
    op_result           \* how it ended, and what it returned

opVars == <<operation, op_result>>

VARIABLES
    \* MainCommandsLoader.load_arguments
    cmd_to_loader_map,        \* self.cmd_to_loader_map: name -> list of loaders
    argument_registry,        \* self.argument_registry.arguments: scope -> dest -> type
    extra_argument_registry,  \* self.extra_argument_registry: name -> dest -> definition
    loader_registries,        \* loader -> the registries its load_arguments fills
    la_pc,                    \* position inside load_arguments
    la_command,               \* command of the running / last call
    la_i,                     \* index of "for loader in command_loaders"
    la_events                 \* what the running / last call did, in order

argVars == <<cmd_to_loader_map, argument_registry, extra_argument_registry,
             loader_registries, la_pc, la_command, la_i, la_events>>

vars == <<loaderVars, azVars, opVars, argVars>>

(***************************************************************************)
(* Collaborators of the loader that live outside __init__.py.              *)
(***************************************************************************)
\* azure.cli.core.extension.get_extension_modname: the extension's python
\* module, which is not the extension's name
get_extension_modname(ext_name) ==
    CASE ext_name = "e1" -> "azext_e1"
      [] ext_name = "e2" -> "azext_e2"

\* azure.cli.core.extension.get_extension_path
get_extension_path(ext_name) ==
    CASE ext_name = "e1" -> "dir_e1"
      [] ext_name = "e2" -> "dir_e2"

ExtensionModules == {get_extension_modname(e) : e \in Range(InstalledExtensions)}

\* a Command as load_command_loader builds it: command_source is not set
NewCommand(unit, cmd_name) ==
    [name |-> cmd_name, loader |-> unit, command_source |-> [type |-> None]]

\* azure.cli.core.commands.load_command_loader(loader, args, name, prefix):
\* imports prefix + name and returns that unit's command table
load_command_loader(name, prefix) ==
    LET b == IF prefix = "azure.cli.command_modules."
             THEN IF name \in DOMAIN modBehaviour
                  THEN modBehaviour[name]
                  ELSE [outcome |-> "notfound", cmds |-> {}]
             ELSE IF name \in DOMAIN extBehaviour
                  THEN extBehaviour[name]
                  ELSE [outcome |-> "notfound", cmds |-> {}]
    IN  [outcome |-> b.outcome,
         result  |-> [c \in b.cmds |-> NewCommand(name, c)]]

\* azure.cli.core.commands.ExtensionCommandSource
ExtensionCommandSource(extension_name, overrides_command) ==
    [type |-> "ExtensionCommandSource",
     extension_name |-> extension_name,
     overrides_command |-> overrides_command]

\* dict.update
DictUpdate(d, other) ==
    [k \in DOMAIN d \cup DOMAIN other |-> IF k \in DOMAIN other THEN other[k] ELSE d[k]]

EmptyDict == [k \in {} |-> None]

(***************************************************************************)
(* MainCommandsLoader                                                      *)
(***************************************************************************)
\* as _load_commands_from_command_module, but the loaded names are not
\* recorded in cmd_to_mod_map
_load_commands_from_command_module_without_map(module_args, module_name) ==
    LET r == load_command_loader(module_name, "azure.cli.command_modules.")
    IN  IF r.outcome = "ok"
        THEN [outcome |-> "ok",
              command_table |-> DictUpdate(command_table, r.result),
              cmd_to_mod_map |-> cmd_to_mod_map]
        ELSE [outcome |-> r.outcome,
              command_table |-> command_table,
              cmd_to_mod_map |-> cmd_to_mod_map]

\* as _load_commands_from_command_module, but what the unit had built is
\* merged before its exception is looked at
_load_commands_from_command_module_keeps_partial(module_args, module_name) ==
    LET r == load_command_loader(module_name, "azure.cli.command_modules.")
    IN  [outcome |-> r.outcome,
         command_table |-> DictUpdate(command_table, r.result),
         cmd_to_mod_map |-> DictUpdate(cmd_to_mod_map,
                                       [cmd \in DOMAIN r.result |-> module_name])]

\* _load_commands_from_command_module: the loader's dicts after the call,
\* and how the call ended ("ok", "notfound": ModuleNotFoundError swallowed,
\* "error": another exception leaves the method)
_load_commands_from_command_module(module_args, module_name) ==
    LET r == load_command_loader(module_name, "azure.cli.command_modules.")
    IN  IF r.outcome = "ok"
        THEN [outcome |-> "ok",
              command_table |-> DictUpdate(command_table, r.result),
              cmd_to_mod_map |-> DictUpdate(cmd_to_mod_map,
                                            [cmd \in DOMAIN r.result |-> module_name])]
        ELSE [outcome |-> r.outcome,
              command_table |-> command_table,
              cmd_to_mod_map |-> cmd_to_mod_map]

\* as _load_commands_from_extension, but a name already in the table keeps
\* its entry
_load_commands_from_extension_keeps_existing(module_args, extension_name) ==
    LET r == load_command_loader(extension_name, "")
        tagged == [cmd_name \in DOMAIN r.result |->
                      [r.result[cmd_name] EXCEPT !.command_source =
                          ExtensionCommandSource(extension_name,
                                                 cmd_name \in DOMAIN cmd_to_mod_map)]]
    IN  IF r.outcome = "ok"
        THEN [outcome |-> "ok", command_table |-> DictUpdate(tagged, command_table)]
        ELSE [outcome |-> r.outcome, command_table |-> command_table]

\* as _load_commands_from_extension, but overrides_command tests the
\* command table instead of cmd_to_mod_map
_load_commands_from_extension_tests_table(module_args, extension_name) ==
    LET r == load_command_loader(extension_name, "")
        tagged == [cmd_name \in DOMAIN r.result |->
                      [r.result[cmd_name] EXCEPT !.command_source =
                          ExtensionCommandSource(extension_name,
                                                 cmd_name \in DOMAIN command_table)]]
    IN  IF r.outcome = "ok"
        THEN [outcome |-> "ok", command_table |-> DictUpdate(command_table, tagged)]
        ELSE [outcome |-> r.outcome, command_table |-> command_table]

\* _load_commands_from_extension
_load_commands_from_extension(module_args, extension_name) ==
    LET r == load_command_loader(extension_name, "")
        tagged == [cmd_name \in DOMAIN r.result |->
                      [r.result[cmd_name] EXCEPT !.command_source =
                          ExtensionCommandSource(extension_name,
                                                 cmd_name \in DOMAIN cmd_to_mod_map)]]
    IN  IF r.outcome = "ok"
        THEN [outcome |-> "ok", command_table |-> DictUpdate(command_table, tagged)]
        ELSE [outcome |-> r.outcome, command_table |-> command_table]

\* fault_type='module-load-error-' + mod
FaultType(mod) == <<"module-load-error-", mod>>

Attempt(phase, unit, outcome) == [phase |-> phase, unit |-> unit, outcome |-> outcome]
Log(level, unit) == [level |-> level, unit |-> unit]

\* the log lines one load attempt inside _load_commands_from_* leaves
LoadLogs(unit, outcome) ==
    IF outcome = "notfound" THEN <<Log("debug", unit)>> ELSE <<>>

\* load_command_table(args): entry of a call
load_command_table(a) ==
    /\ pc \in {"idle", "returned", "raised"}
    /\ args' = a
    /\ pc' = "modules"
    /\ attempts' = <<>>
    /\ telemetry' = <<>>
    /\ logs' = <<>>
    /\ installed_command_modules' = <<>>
    /\ scan_i' = 1
    /\ extensions' = <<>>
    /\ ext_i' = 1
    /\ UNCHANGED <<command_table, cmd_to_mod_map, sys_path, namespace_ok,
                   modBehaviour, extBehaviour>>
    /\ UNCHANGED <<azVars, opVars, argVars>>

\* _update_command_table_from_modules, up to the fallback scan's for loop:
\* the targeted load of the root command's module, and the discovery of the
\* installed command modules
root_command == IF args # <<>> THEN args[1] ELSE None

DiscoverModules ==
    IF namespace_ok
    THEN SelectSeq(NamespaceModules, LAMBDA modname : modname \notin BLACKLISTED_MODS)
    ELSE <<>>

\* as TargetedLoad, but without the early return: the fallback scan follows
\* the targeted load whatever it loaded
TargetedLoad_without_early_return ==
    /\ pc = "modules"
    /\ IF root_command # None /\ root_command # "" /\ root_command \notin BLACKLISTED_MODS
       THEN LET r == _load_commands_from_command_module(args, root_command)
            IN  /\ attempts' = Append(attempts, Attempt("targeted", root_command, r.outcome))
                /\ logs' = logs \o LoadLogs(root_command, r.outcome)
                /\ command_table' = r.command_table
                /\ cmd_to_mod_map' = r.cmd_to_mod_map
                /\ IF r.outcome = "error"
                   THEN /\ pc' = "raised"
                        /\ UNCHANGED installed_command_modules
                   ELSE /\ pc' = "scan"
                        /\ installed_command_modules' = DiscoverModules
       ELSE /\ pc' = "scan"
            /\ installed_command_modules' = DiscoverModules
            /\ UNCHANGED <<attempts, logs, command_table, cmd_to_mod_map>>
    /\ UNCHANGED <<args, scan_i, extensions, ext_i, sys_path, telemetry,
                   namespace_ok, modBehaviour, extBehaviour>>
    /\ UNCHANGED <<azVars, opVars, argVars>>

TargetedLoad ==
    /\ pc = "modules"
    /\ IF root_command # None /\ root_command # "" /\ root_command \notin BLACKLISTED_MODS
       THEN LET r == _load_commands_from_command_module(args, root_command)
            IN  /\ attempts' = Append(attempts, Attempt("targeted", root_command, r.outcome))
                /\ logs' = logs \o LoadLogs(root_command, r.outcome)
                /\ command_table' = r.command_table
                /\ cmd_to_mod_map' = r.cmd_to_mod_map
                /\ IF r.outcome = "error"
                   THEN \* the exception leaves load_command_table
                        /\ pc' = "raised"
                        /\ UNCHANGED installed_command_modules
                   ELSE IF DOMAIN r.command_table # {}
                        THEN \* some command definitions have been loaded
                             /\ pc' = "extensions"
                             /\ UNCHANGED installed_command_modules
                        ELSE /\ pc' = "scan"
                             /\ installed_command_modules' = DiscoverModules
       ELSE /\ pc' = "scan"
            /\ installed_command_modules' = DiscoverModules
            /\ UNCHANGED <<attempts, logs, command_table, cmd_to_mod_map>>
    /\ UNCHANGED <<args, scan_i, extensions, ext_i, sys_path, telemetry,
                   namespace_ok, modBehaviour, extBehaviour>>
    /\ UNCHANGED <<azVars, opVars, argVars>>

\* one iteration of "for mod in installed_command_modules"; telemetry_ok is
\* whether telemetry.set_exception returns
ScanModule(telemetry_ok) ==
    /\ pc = "scan"
    /\ scan_i <= Len(installed_command_modules)
    /\ LET mod == installed_command_modules[scan_i]
           r == _load_commands_from_command_module(args, mod)
       IN  /\ attempts' = Append(attempts, Attempt("scan", mod, r.outcome))
           /\ command_table' = r.command_table
           /\ cmd_to_mod_map' = r.cmd_to_mod_map
           /\ IF r.outcome = "error"
              THEN /\ logs' = Append(logs, Log("error", mod))
                   /\ telemetry' = Append(telemetry, FaultType(mod))
                   /\ pc' = IF telemetry_ok THEN "scan" ELSE "raised"
              ELSE /\ logs' = logs \o LoadLogs(mod, r.outcome)
                   /\ pc' = "scan"
                   /\ UNCHANGED telemetry
    /\ scan_i' = scan_i + 1
    /\ UNCHANGED <<args, installed_command_modules, extensions, ext_i, sys_path,
                   namespace_ok, modBehaviour, extBehaviour>>
    /\ UNCHANGED <<azVars, opVars, argVars>>

\* the for loop is exhausted: _update_command_table_from_modules returns
ScanDone ==
    /\ pc = "scan"
    /\ scan_i > Len(installed_command_modules)
    /\ pc' = "extensions"
    /\ UNCHANGED <<command_table, cmd_to_mod_map, args, installed_command_modules,
                   scan_i, extensions, ext_i, sys_path, namespace_ok, modBehaviour,
                   extBehaviour, attempts, telemetry, logs>>
    /\ UNCHANGED <<azVars, opVars, argVars>>

\* _update_command_table_from_extensions, up to its for loop; names_ok is
\* whether get_extension_names returns
ExtensionsStart(names_ok) ==
    /\ pc = "extensions"
    /\ IF names_ok
       THEN /\ extensions' = InstalledExtensions
            /\ pc' = "extloop"
            /\ UNCHANGED logs
       ELSE \* caught by the outer "except Exception"
            /\ logs' = Append(logs, Log("warning", "extensions"))
            /\ pc' = "return"
            /\ UNCHANGED extensions
    /\ UNCHANGED <<command_table, cmd_to_mod_map, args, installed_command_modules,
                   scan_i, ext_i, sys_path, namespace_ok, modBehaviour, extBehaviour,
                   attempts, telemetry>>
    /\ UNCHANGED <<azVars, opVars, argVars>>

\* one iteration of "for ext_name in extensions"; path_ok and modname_ok are
\* whether get_extension_path and get_extension_modname return
LoadExtension(path_ok, modname_ok) ==
    /\ pc = "extloop"
    /\ ext_i <= Len(extensions)
    /\ LET ext_name == extensions[ext_i]
           ext_mod == get_extension_modname(ext_name)
           r == _load_commands_from_extension(args, ext_mod)
       IN  IF ~path_ok
           THEN \* get_extension_path is outside the inner try: the outer
                \* "except Exception" catches it and the loop is left
                /\ attempts' = Append(attempts, Attempt("ext", ext_name, "path_error"))
                /\ logs' = Append(logs, Log("warning", "extensions"))
                /\ pc' = "return"
                /\ UNCHANGED <<command_table, sys_path>>
           ELSE /\ sys_path' = sys_path \cup {get_extension_path(ext_name)}
                /\ pc' = "extloop"
                /\ IF ~modname_ok
                   THEN /\ attempts' = Append(attempts,
                                              Attempt("ext", ext_name, "modname_error"))
                        /\ logs' = Append(logs, Log("warning", ext_name))
                        /\ UNCHANGED command_table
                   ELSE /\ attempts' = Append(attempts, Attempt("ext", ext_name, r.outcome))
                        /\ command_table' = r.command_table
                        /\ logs' = IF r.outcome = "error"
                                   THEN Append(logs, Log("warning", ext_name))
                                   ELSE logs \o LoadLogs(ext_mod, r.outcome)
    /\ ext_i' = ext_i + 1
    /\ UNCHANGED <<cmd_to_mod_map, args, installed_command_modules, scan_i, extensions,
                   namespace_ok, modBehaviour, extBehaviour, telemetry>>
    /\ UNCHANGED <<azVars, opVars, argVars>>

ExtensionsDone ==
    /\ pc = "extloop"
    /\ ext_i > Len(extensions)
    /\ pc' = "return"
    /\ UNCHANGED <<command_table, cmd_to_mod_map, args, installed_command_modules,
                   scan_i, extensions, ext_i, sys_path, namespace_ok, modBehaviour,
                   extBehaviour, attempts, telemetry, logs>>
    /\ UNCHANGED <<azVars, opVars, argVars>>

\* load_command_table returns self.command_table
Return ==
    /\ pc = "return"
    /\ pc' = "returned"
    /\ UNCHANGED <<command_table, cmd_to_mod_map, args, installed_command_modules,
                   scan_i, extensions, ext_i, sys_path, namespace_ok, modBehaviour,
                   extBehaviour, attempts, telemetry, logs>>
    /\ UNCHANGED <<azVars, opVars, argVars>>

(***************************************************************************)
(* Specification of the loader                                             *)
(***************************************************************************)
LoaderInit ==
    /\ command_table = EmptyDict
    /\ cmd_to_mod_map = EmptyDict
    /\ pc = "idle"
    /\ args = <<>>
    /\ installed_command_modules = <<>>
    /\ scan_i = 1
    /\ extensions = <<>>
    /\ ext_i = 1
    /\ sys_path = {}
    /\ attempts = <<>>
    /\ telemetry = <<>>
    /\ logs = <<>>
    /\ namespace_ok \in BOOLEAN
    /\ modBehaviour \in [Range(NamespaceModules) -> UnitBehaviours]
    \* the denylisted module is installed and healthy
    /\ namespace_ok => modBehaviour["d1"] = [outcome |-> "ok", cmds |-> {"c1"}]
    \* without the namespace package no command module can be imported
    /\ ~namespace_ok => \A m \in DOMAIN modBehaviour : modBehaviour[m].outcome = "notfound"
    /\ extBehaviour \in [ExtensionModules -> UnitBehaviours]

Next ==
    \/ \E a \in ArgsValues : load_command_table(a)
    \/ TargetedLoad
    \/ \E telemetry_ok \in BOOLEAN : ScanModule(telemetry_ok)
    \/ ScanDone
    \/ \E names_ok \in BOOLEAN : ExtensionsStart(names_ok)
    \/ \E path_ok, modname_ok \in BOOLEAN : LoadExtension(path_ok, modname_ok)
    \/ ExtensionsDone
    \/ Return

(***************************************************************************)
(* Python values of the registration interface, as strings: None, the      *)
(* empty str, a str, a function object, an int.                            *)
(***************************************************************************)
IsString(x) == x \in {"", "mod#func"}
Callable(x) == x = "<function>"
Truthy(x) == x \notin {None, ""}
\* Python's "a or b"
Or(a, b) == IF Truthy(a) THEN a ELSE b

(***************************************************************************)
(* str.split() and str.join on sequences of characters                     *)
(***************************************************************************)
RECURSIVE SplitWhitespace(_, _, _)
SplitWhitespace(s, i, cur) ==
    IF i > Len(s)
    THEN IF cur = <<>> THEN <<>> ELSE <<cur>>
    ELSE IF s[i] = " "
         THEN IF cur = <<>>
              THEN SplitWhitespace(s, i + 1, <<>>)
              ELSE <<cur>> \o SplitWhitespace(s, i + 1, <<>>)
         ELSE SplitWhitespace(s, i + 1, Append(cur, s[i]))

RECURSIVE Join(_, _)
Join(sep, parts) ==
    IF parts = <<>> THEN <<>>
    ELSE IF Len(parts) = 1 THEN parts[1]
    ELSE parts[1] \o sep \o Join(sep, Tail(parts))

\* ' '.join(name.split())
NormalizeName(name) == Join(<<" ">>, SplitWhitespace(name, 1, <<>>))

(***************************************************************************)
(* azure.cli.core.profiles: API versions, ordered, and the version each    *)
(* cloud profile gives a resource type                                     *)
(***************************************************************************)
ApiVersions == <<"2016-01-01", "2017-01-01", "latest">>
Rank(v) == CHOOSE i \in DOMAIN ApiVersions : ApiVersions[i] = v

PROFILE_TYPE == "PROFILE_TYPE"
ResourceTypes == {"MGMT_STORAGE"}

\* azure.cli.core.profiles.get_api_version(cli_ctx, resource_type)
get_api_version(profile, resource_type) ==
    CASE profile = "2016-01-01" -> "2016-01-01"
      [] profile = "2017-01-01" -> "2016-01-01"
      [] profile = "latest"     -> "2017-01-01"

\* azure.cli.core.profiles.supported_api_version: the active version of the
\* resource type lies within the inclusive bounds given
profiles_supported_api_version(resource_type, min_api, max_api) ==
    LET v == IF resource_type = PROFILE_TYPE
             THEN cloud_profile
             ELSE get_api_version(cloud_profile, resource_type)
    IN  /\ min_api # None => Rank(min_api) <= Rank(v)
        /\ max_api # None => Rank(v) <= Rank(max_api)

(***************************************************************************)
(* AzCommandsLoader                                                        *)
(***************************************************************************)
\* as supported_api_version, but the loader's profile bounds are not used
\* as defaults
supported_api_version_without_defaults(resource_type, min_api, max_api) ==
    profiles_supported_api_version(Or(resource_type, PROFILE_TYPE), min_api, max_api)

\* AzCommandsLoader.supported_api_version
supported_api_version(resource_type, min_api, max_api) ==
    profiles_supported_api_version(Or(resource_type, PROFILE_TYPE),
                                   Or(min_api, min_profile),
                                   Or(max_api, max_profile))

\* the command self.command_cls(self, name, handler or default_command_handler)
AzCliCommand(name, op, handler) ==
    [name |-> name,
     handler |-> IF Truthy(handler) THEN handler ELSE "default_command_handler",
     operation |-> op]

\* as _cli_command, without the check that exactly one of operation and
\* handler is given when both are
_cli_command_accepts_both(name, op, handler, kwargs) ==
    IF Truthy(op) /\ ~IsString(op)
    THEN [outcome |-> "TypeError", command_table |-> az_command_table]
    ELSE IF Truthy(handler) /\ ~Callable(handler)
    THEN [outcome |-> "TypeError", command_table |-> az_command_table]
    ELSE IF ~Truthy(op) /\ ~Truthy(handler)
    THEN [outcome |-> "TypeError", command_table |-> az_command_table]
    ELSE LET normalized == NormalizeName(name)
         IN  IF supported_api_version(kwargs.resource_type, kwargs.min_api, kwargs.max_api)
             THEN [outcome |-> "registered",
                   command_table |->
                       DictUpdate(az_command_table,
                                  [k \in {normalized} |-> AzCliCommand(normalized, op, handler)])]
             ELSE [outcome |-> "skipped", command_table |-> az_command_table]

\* AzCommandsLoader._cli_command: how the call ends and self.command_table
\* after it
_cli_command(name, op, handler, kwargs) ==
    IF Truthy(op) /\ ~IsString(op)
    THEN [outcome |-> "TypeError", command_table |-> az_command_table]
    ELSE IF Truthy(handler) /\ ~Callable(handler)
    THEN [outcome |-> "TypeError", command_table |-> az_command_table]
    ELSE IF Truthy(op) = Truthy(handler)
    THEN [outcome |-> "TypeError", command_table |-> az_command_table]
    ELSE LET normalized == NormalizeName(name)
         IN  IF supported_api_version(kwargs.resource_type, kwargs.min_api, kwargs.max_api)
             THEN [outcome |-> "registered",
                   command_table |->
                       DictUpdate(az_command_table,
                                  [k \in {normalized} |-> AzCliCommand(normalized, op, handler)])]
             ELSE [outcome |-> "skipped", command_table |-> az_command_table]

\* the arguments the registrations are drawn from
CliNames == {<<"a", " ", "b">>, <<" ", "a", " ", " ", "b", " ">>, <<"b">>}
CliOperations == {None, "", "mod#func", "<function>"}
CliHandlers == {None, "<function>", "<int>"}
CliKwargs ==
    [resource_type : {None} \cup ResourceTypes,
     min_api : {None, "2017-01-01"},
     max_api : {None, "2016-01-01"}]

NoCall ==
    [name |-> <<>>, operation |-> None, handler |-> None,
     kwargs |-> [resource_type |-> None, min_api |-> None, max_api |-> None],
     before |-> EmptyDict, outcome |-> "none"]

CallCliCommand(name, op, handler, kwargs) ==
    LET r == _cli_command(name, op, handler, kwargs)
    IN  /\ az_command_table' = r.command_table
        /\ cli_call' = [name |-> name, operation |-> op, handler |-> handler,
                        kwargs |-> kwargs, before |-> az_command_table,
                        outcome |-> r.outcome]
        /\ UNCHANGED <<min_profile, max_profile, cloud_profile, loaderVars, opVars, argVars>>

\* AzCommandsLoader.__init__
AzInit ==
    /\ az_command_table = EmptyDict
    /\ min_profile \in {None, "2017-01-01"}
    /\ max_profile \in {"latest", "2016-01-01"}
    /\ cloud_profile \in Range(ApiVersions)
    /\ cli_call = NoCall

NextCli ==
    \E name \in CliNames, op \in CliOperations, handler \in CliHandlers, kwargs \in CliKwargs :
        CallCliCommand(name, op, handler, kwargs)

\* the loader that is not under study stays as constructed
AzIdle ==
    /\ az_command_table = EmptyDict
    /\ min_profile = None
    /\ max_profile = "latest"
    /\ cloud_profile = "latest"
    /\ cli_call = NoCall

LoaderIdle ==
    /\ command_table = EmptyDict
    /\ cmd_to_mod_map = EmptyDict
    /\ pc = "idle"
    /\ args = <<>>
    /\ installed_command_modules = <<>>
    /\ scan_i = 1
    /\ extensions = <<>>
    /\ ext_i = 1
    /\ sys_path = {}
    /\ attempts = <<>>
    /\ telemetry = <<>>
    /\ logs = <<>>
    /\ namespace_ok = TRUE
    /\ modBehaviour = [m \in Range(NamespaceModules) |-> [outcome |-> "notfound", cmds |-> {}]]
    /\ extBehaviour = [m \in ExtensionModules |-> [outcome |-> "notfound", cmds |-> {}]]

(***************************************************************************)
(* get_op_handler                                                          *)
(* An operation reference is a str: a sequence of characters. The modules  *)
(* that can be imported are "m" and the versioned SDK module "p.v"; "p" is *)
(* the import prefix of the one resource type.                             *)
(***************************************************************************)
OpChars == {"m", "p", "#", ".", "f", "C", "k"}

\* the longest operation reference drawn
MaxOpLen == 5

RECURSIVE SeqsUpTo(_, _)
SeqsUpTo(S, n) ==
    IF n = 0 THEN {<<>>}
    ELSE LET shorter == SeqsUpTo(S, n - 1)
         IN  shorter \cup {Append(q, x) : q \in {t \in shorter : Len(t) = n - 1}, x \in S}

\* ResourceType.import_prefix and profiles._shared.get_versioned_sdk_path
import_prefix == <<"p">>
get_versioned_sdk_path == <<"p", ".", "v">>

\* str.startswith
StartsWith(s, prefix) ==
    /\ Len(prefix) <= Len(s)
    /\ SubSeq(s, 1, Len(prefix)) = prefix

\* str.replace(old, new): every non-overlapping occurrence, left to right
RECURSIVE Replace(_, _, _)
Replace(s, old, new) ==
    IF s = <<>> THEN <<>>
    ELSE IF StartsWith(s, old)
         THEN new \o Replace(SubSeq(s, Len(old) + 1, Len(s)), old, new)
         ELSE <<s[1]>> \o Replace(Tail(s), old, new)

\* str.split(sep) for a one-character separator
RECURSIVE Split(_, _, _, _)
Split(s, sep, i, cur) ==
    IF i > Len(s) THEN <<cur>>
    ELSE IF s[i] = sep
         THEN <<cur>> \o Split(s, sep, i + 1, <<>>)
         ELSE Split(s, sep, i + 1, Append(cur, s[i]))

\* importlib.import_module: the module object, or the exception raised
import_module(name) ==
    IF name = <<>> THEN [kind |-> "ValueError", value |-> None]
    ELSE IF name[1] = "." THEN [kind |-> "TypeError", value |-> None]
    ELSE IF name = <<"m">> THEN [kind |-> "ok", value |-> "module m"]
    ELSE IF name = get_versioned_sdk_path THEN [kind |-> "ok", value |-> "module p.v"]
    ELSE [kind |-> "ImportError", value |-> None]

\* the objects of the two modules: a plain function f in each, a class C in
\* m with a plain function f and a class method k
AttributeError == "AttributeError"
getattr(obj, part) ==
    CASE obj = "module m" /\ part = <<"f">>   -> "function m.f"
      [] obj = "module m" /\ part = <<"C">>   -> "class m.C"
      [] obj = "module p.v" /\ part = <<"f">> -> "function p.v.f"
      [] obj = "class m.C" /\ part = <<"f">>  -> "function m.C.f"
      [] obj = "class m.C" /\ part = <<"k">>  -> "bound method m.C.k"
      [] OTHER -> AttributeError

FunctionTypes == {"function m.f", "function p.v.f", "function m.C.f", "function m.C.k"}

\* six.get_method_function: the method's __func__
get_method_function(obj) ==
    IF obj = "bound method m.C.k" THEN "function m.C.k" ELSE AttributeError

\* "for part in attr_path.split('.'): op = getattr(op, part)"
RECURSIVE WalkAttributes(_, _)
WalkAttributes(obj, parts) ==
    IF parts = <<>> \/ obj = AttributeError THEN obj
    ELSE WalkAttributes(getattr(obj, parts[1]), Tail(parts))

\* as get_op_handler, but pieces after a second '#' are dropped instead of
\* failing the unpacking
get_op_handler_drops_extra_pieces(op_ref) ==
    LET substituted == IF StartsWith(op_ref, import_prefix)
                       THEN Replace(op_ref, import_prefix, get_versioned_sdk_path)
                       ELSE op_ref
        pieces == Split(substituted, "#", 1, <<>>)
        invalid == [kind |-> "ValueError", value |-> None]
    IN  IF Len(pieces) < 2 THEN invalid
        ELSE LET module == import_module(pieces[1])
                 attr_path == pieces[2]
             IN  IF module.kind = "ValueError" THEN invalid
                 ELSE IF module.kind # "ok" THEN module
                 ELSE LET op == WalkAttributes(module.value, Split(attr_path, ".", 1, <<>>))
                      IN  IF op = AttributeError THEN invalid
                          ELSE IF op \in FunctionTypes THEN [kind |-> "return", value |-> op]
                          ELSE IF get_method_function(op) = AttributeError THEN invalid
                          ELSE [kind |-> "return", value |-> get_method_function(op)]

\* as get_op_handler, but whatever the chain ends at is returned as found
get_op_handler_returns_object_as_found(op_ref) ==
    LET substituted == IF StartsWith(op_ref, import_prefix)
                       THEN Replace(op_ref, import_prefix, get_versioned_sdk_path)
                       ELSE op_ref
        pieces == Split(substituted, "#", 1, <<>>)
        invalid == [kind |-> "ValueError", value |-> None]
    IN  IF Len(pieces) # 2 THEN invalid
        ELSE LET module == import_module(pieces[1])
                 attr_path == pieces[2]
             IN  IF module.kind = "ValueError" THEN invalid
                 ELSE IF module.kind # "ok" THEN module
                 ELSE LET op == WalkAttributes(module.value, Split(attr_path, ".", 1, <<>>))
                      IN  IF op = AttributeError THEN invalid
                          ELSE [kind |-> "return", value |-> op]

\* AzCommandsLoader.get_op_handler: what it returns, or the exception that
\* leaves it (ValueError is its "operation is invalid" error)
get_op_handler(op_ref) ==
    LET substituted == IF StartsWith(op_ref, import_prefix)
                       THEN Replace(op_ref, import_prefix, get_versioned_sdk_path)
                       ELSE op_ref
        pieces == Split(substituted, "#", 1, <<>>)
        invalid == [kind |-> "ValueError", value |-> None]
    IN  IF Len(pieces) # 2 THEN invalid
        ELSE LET module == import_module(pieces[1])
                 attr_path == pieces[2]
             IN  IF module.kind = "ValueError" THEN invalid
                 ELSE IF module.kind # "ok" THEN module
                 ELSE LET op == WalkAttributes(module.value, Split(attr_path, ".", 1, <<>>))
                      IN  IF op = AttributeError THEN invalid
                          ELSE IF op \in FunctionTypes THEN [kind |-> "return", value |-> op]
                          ELSE IF get_method_function(op) = AttributeError THEN invalid
                          ELSE [kind |-> "return", value |-> get_method_function(op)]

OpIdle ==
    /\ operation = <<>>
    /\ op_result = [kind |-> "pending", value |-> None]

OpInit ==
    /\ operation \in SeqsUpTo(OpChars, MaxOpLen)
    /\ op_result = [kind |-> "pending", value |-> None]

CallGetOpHandler ==
    /\ op_result.kind = "pending"
    /\ op_result' = get_op_handler(operation)
    /\ UNCHANGED <<operation, loaderVars, azVars, argVars>>

NextOp == CallGetOpHandler

(***************************************************************************)
(* MainCommandsLoader.load_arguments                                       *)
(* cmd_to_loader_map is as command loading left it; each contributing      *)
(* loader's load_arguments fills that loader's own registries, which the   *)
(* main loader merges into its own.                                        *)
(***************************************************************************)
\* the loaders of the command modules and extensions that were loaded
Loaders == {"L1", "L2"}

\* the lists of contributing loaders a command name may be mapped to
LoaderLists == {<<"L1">>, <<"L2">>, <<"L1", "L2">>, <<"L2", "L1">>}

\* command names load_arguments may be called with
ArgCommands == {"c1", "c2"}

\* argument scopes: '' is the scope of every command
ArgScopes == {"", "c1"}

\* the dests a loader registers in a scope: in '' one of them is a dest the
\* main loader overrides
LoaderDests(scope) == IF scope = "" THEN {"location", "x"} ELSE {"x"}

\* a loader's registries after its load_arguments ran: it registered its
\* own types for the scopes and its own definitions for the commands given
LoaderRegistry(loader, scopes, commands) ==
    [arguments |-> [sc \in scopes |-> [d \in LoaderDests(sc) |-> loader]],
     extra     |-> [c \in commands |-> [d \in {"y"} |-> loader]]]

LoaderRegistryValues(loader) ==
    {LoaderRegistry(loader, scopes, commands) :
        scopes \in SUBSET ArgScopes, commands \in SUBSET {"c1"}}

\* the with-block of load_arguments: dest and type of each c.argument call,
\* in the order of the calls
Overrides ==
    << <<"resource_group_name", "resource_group_name_type">>,
       <<"location", "get_location_type">>,
       <<"deployment_name", "deployment_name_type">>,
       <<"cmd", "ignore_type">> >>

\* ArgumentsContext(self, '').argument(dest, arg_type): the type is
\* registered for dest in scope ''
RECURSIVE RegisterArguments(_, _)
RegisterArguments(registry, todo) ==
    IF todo = <<>> THEN registry
    ELSE LET scope == IF "" \in DOMAIN registry THEN registry[""] ELSE EmptyDict
             dest == todo[1][1]
             arg_type == todo[1][2]
         IN  RegisterArguments(
                 DictUpdate(registry,
                            [sc \in {""} |-> DictUpdate(scope, [d \in {dest} |-> arg_type])]),
                 Tail(todo))

\* self.cmd_to_loader_map.get(command, None)
command_loaders ==
    IF la_command \in DOMAIN cmd_to_loader_map THEN cmd_to_loader_map[la_command] ELSE None

ArgIdle ==
    /\ cmd_to_loader_map = EmptyDict
    /\ argument_registry = EmptyDict
    /\ extra_argument_registry = EmptyDict
    /\ loader_registries = [l \in Loaders |-> LoaderRegistry(l, {}, {})]
    /\ la_pc = "idle"
    /\ la_command = None
    /\ la_i = 1
    /\ la_events = <<>>

ArgInit ==
    /\ \E named \in SUBSET ArgCommands : cmd_to_loader_map \in [named -> LoaderLists]
    /\ argument_registry = EmptyDict
    /\ extra_argument_registry = EmptyDict
    /\ loader_registries \in [Loaders -> UNION {LoaderRegistryValues(l) : l \in Loaders}]
    /\ \A l \in Loaders : loader_registries[l] \in LoaderRegistryValues(l)
    /\ la_pc = "idle"
    /\ la_command = None
    /\ la_i = 1
    /\ la_events = <<>>

\* load_arguments(command): entry of a call, up to "if command_loaders:"
load_arguments(command) ==
    /\ la_pc \in {"idle", "done"}
    /\ la_command' = command
    /\ la_events' = <<>>
    /\ la_i' = 1
    /\ la_pc' = IF command \in DOMAIN cmd_to_loader_map /\ cmd_to_loader_map[command] # <<>>
                THEN "loaders"
                ELSE "done"
    /\ UNCHANGED <<cmd_to_loader_map, argument_registry, extra_argument_registry,
                   loader_registries>>
    /\ UNCHANGED <<loaderVars, azVars, opVars>>

\* as LoadLoaderArguments, but an entry the main registries already hold is
\* kept
LoadLoaderArguments_keeps_existing ==
    /\ la_pc = "loaders"
    /\ la_i <= Len(command_loaders)
    /\ LET loader == command_loaders[la_i]
       IN  /\ argument_registry' =
                  DictUpdate(loader_registries[loader].arguments, argument_registry)
           /\ extra_argument_registry' =
                  DictUpdate(loader_registries[loader].extra, extra_argument_registry)
           /\ la_events' = la_events \o << <<"load_arguments", loader>>,
                                           <<"merge arguments", loader>>,
                                           <<"merge extra arguments", loader>> >>
    /\ la_i' = la_i + 1
    /\ UNCHANGED <<cmd_to_loader_map, loader_registries, la_pc, la_command>>
    /\ UNCHANGED <<loaderVars, azVars, opVars>>

\* one iteration of "for loader in command_loaders"
LoadLoaderArguments ==
    /\ la_pc = "loaders"
    /\ la_i <= Len(command_loaders)
    /\ LET loader == command_loaders[la_i]
       IN  /\ argument_registry' =
                  DictUpdate(argument_registry, loader_registries[loader].arguments)
           /\ extra_argument_registry' =
                  DictUpdate(extra_argument_registry, loader_registries[loader].extra)
           /\ la_events' = la_events \o << <<"load_arguments", loader>>,
                                           <<"merge arguments", loader>>,
                                           <<"merge extra arguments", loader>> >>
    /\ la_i' = la_i + 1
    /\ UNCHANGED <<cmd_to_loader_map, loader_registries, la_pc, la_command>>
    /\ UNCHANGED <<loaderVars, azVars, opVars>>

\* the with-block after the for loop
RegisterOverrides ==
    /\ la_pc = "loaders"
    /\ la_i > Len(command_loaders)
    /\ argument_registry' = RegisterArguments(argument_registry, Overrides)
    /\ la_events' = la_events \o [k \in DOMAIN Overrides |-> <<"argument", Overrides[k][1]>>]
    /\ la_pc' = "base"
    /\ UNCHANGED <<cmd_to_loader_map, extra_argument_registry, loader_registries,
                   la_command, la_i>>
    /\ UNCHANGED <<loaderVars, azVars, opVars>>

\* super(MainCommandsLoader, self).load_arguments(command)
BaseLoadArguments ==
    /\ la_pc = "base"
    /\ la_events' = Append(la_events, <<"base load_arguments", la_command>>)
    /\ la_pc' = "done"
    /\ UNCHANGED <<cmd_to_loader_map, argument_registry, extra_argument_registry,
                   loader_registries, la_command, la_i>>
    /\ UNCHANGED <<loaderVars, azVars, opVars>>

NextArgs ==
    \/ \E command \in ArgCommands : load_arguments(command)
    \/ LoadLoaderArguments
    \/ RegisterOverrides
    \/ BaseLoadArguments

(***************************************************************************)
(* Specifications: the main loader, an AzCommandsLoader's registrations,   *)
(* and get_op_handler on one operation reference                           *)
(***************************************************************************)
Init == LoaderInit /\ AzIdle /\ OpIdle /\ ArgIdle
Spec == Init /\ [][Next]_vars

InitCli == AzInit /\ LoaderIdle /\ OpIdle /\ ArgIdle
SpecCli == InitCli /\ [][NextCli]_vars

InitOp == OpInit /\ LoaderIdle /\ AzIdle /\ ArgIdle
SpecOp == InitOp /\ [][NextOp]_vars

InitArgs == ArgInit /\ LoaderIdle /\ AzIdle /\ OpIdle
SpecArgs == InitArgs /\ [][NextArgs]_vars


(***************************************************************************)
(* Observations on the running / last call of load_command_table           *)
(***************************************************************************)
\* the loader name of the unit an attempt loads
UnitOf(a) == IF a.phase = "ext" THEN get_extension_modname(a.unit) ELSE a.unit

\* the command names the attempt's unit handed over (none unless it loaded)
UnitCmds(a) ==
    IF a.outcome # "ok" THEN {}
    ELSE IF a.phase = "ext" THEN extBehaviour[UnitOf(a)].cmds
    ELSE modBehaviour[a.unit].cmds

Registrations(c) == {i \in DOMAIN attempts : c \in UnitCmds(attempts[i])}
RegisteringUnits(c) == {UnitOf(attempts[i]) : i \in Registrations(c)}
LastRegistration(c) ==
    CHOOSE i \in Registrations(c) : \A j \in Registrations(c) : j <= i

AttemptedIn(phase) == {attempts[i].unit : i \in {j \in DOMAIN attempts : attempts[j].phase = phase}}

(***************************************************************************)
(* C1: after load_command_table returns, a command name registered by more *)
(* than one loaded unit of the call resolves to the definition of the unit *)
(* loaded last (targeted module, scan modules, extensions, in that order); *)
(* a name an extension registered carries an extension's definition.       *)
(***************************************************************************)
C1_LastLoadedWins ==
    pc = "returned" =>
        \A c \in CmdNames :
            Cardinality(RegisteringUnits(c)) > 1 =>
                /\ c \in DOMAIN command_table
                /\ command_table[c].loader = UnitOf(attempts[LastRegistration(c)])
                /\ (\E i \in Registrations(c) : attempts[i].phase = "ext") =>
                       command_table[c].command_source.type = "ExtensionCommandSource"

C1_Witness ==
    /\ pc = "returned"
    /\ \E c \in CmdNames :
           /\ Cardinality(RegisteringUnits(c)) > 2
           /\ \E i, j \in Registrations(c) :
                  attempts[i].phase = "scan" /\ attempts[j].phase = "ext"

(***************************************************************************)
(* C2 as stated: for every name registered by two different units, the     *)
(* final entry is the later unit's definition and its command_source has   *)
(* overrides_command true, whatever the kinds of the two units.            *)
(***************************************************************************)
C2_Original ==
    pc = "returned" =>
        \A c \in CmdNames :
            Cardinality(RegisteringUnits(c)) > 1 =>
                /\ c \in DOMAIN command_table
                /\ command_table[c].loader = UnitOf(attempts[LastRegistration(c)])
                /\ command_table[c].command_source.type = "ExtensionCommandSource"
                /\ command_table[c].command_source.overrides_command

(***************************************************************************)
(* C2 amended: for every name registered by two different units, the final *)
(* entry is the later unit's definition; when the later unit is a module   *)
(* no override provenance is recorded (command_source is left unset); when *)
(* it is an extension overrides_command is true exactly when the name is a *)
(* key of cmd_to_mod_map, so it is true for module-then-extension and      *)
(* false for extension-then-extension with no built-in definition.         *)
(***************************************************************************)
C2_OverrideProvenance ==
    pc = "returned" =>
        \A c \in CmdNames :
            Cardinality(RegisteringUnits(c)) > 1 =>
                /\ c \in DOMAIN command_table
                /\ LET last == attempts[LastRegistration(c)]
                       entry == command_table[c]
                   IN  /\ entry.loader = UnitOf(last)
                       /\ last.phase # "ext" => entry.command_source = [type |-> None]
                       /\ last.phase = "ext" =>
                              /\ entry.command_source.type = "ExtensionCommandSource"
                              /\ entry.command_source.overrides_command
                                     <=> c \in DOMAIN cmd_to_mod_map

\* both an extension-over-extension entry that overrides nothing and a
\* module-over-module entry are in the returned table
C2_Witness ==
    /\ pc = "returned"
    /\ \E c \in CmdNames :
           /\ Cardinality(RegisteringUnits(c)) > 1
           /\ attempts[LastRegistration(c)].phase = "ext"
           /\ ~command_table[c].command_source.overrides_command
    /\ \E c \in CmdNames :
           /\ Cardinality(RegisteringUnits(c)) > 1
           /\ attempts[LastRegistration(c)].phase = "scan"

(***************************************************************************)
(* C3 as stated: right after an extension loaded, every command it         *)
(* contributed is tagged with the extension's name, and overrides_command  *)
(* is true iff the name is a key of cmd_to_mod_map.                        *)
(***************************************************************************)
JustLoadedExtension ==
    /\ pc = "extloop"
    /\ attempts # <<>>
    /\ attempts[Len(attempts)].phase = "ext"
    /\ attempts[Len(attempts)].outcome = "ok"

C3_TaggedWithExtensionName ==
    JustLoadedExtension =>
        LET a == attempts[Len(attempts)]
        IN  \A c \in UnitCmds(a) :
                command_table[c].command_source =
                    ExtensionCommandSource(a.unit, c \in DOMAIN cmd_to_mod_map)

\* what the code does instead: the tag is the extension's module name; the
\* overrides_command half of the claim holds
C3_TaggedWithModuleName ==
    JustLoadedExtension =>
        LET a == attempts[Len(attempts)]
        IN  \A c \in UnitCmds(a) :
                command_table[c].command_source =
                    ExtensionCommandSource(get_extension_modname(a.unit),
                                           c \in DOMAIN cmd_to_mod_map)

(***************************************************************************)
(* C4 as stated: whatever units fail to load, load_command_table returns   *)
(* a command table; no exception leaves it.                                *)
(***************************************************************************)
C4_NeverRaises == pc # "raised"

(***************************************************************************)
(* C5 as stated: in the fallback scan, a module whose load raises another  *)
(* exception than ModuleNotFoundError gets exactly one telemetry report    *)
(* and every module after it in discovery order is still attempted, so the *)
(* table holds the commands of every healthy scanned module.               *)
(***************************************************************************)
ScanAttempts == {i \in DOMAIN attempts : attempts[i].phase = "scan"}
ReportsFor(mod) ==
    Cardinality({k \in DOMAIN telemetry : telemetry[k] = <<"module-load-error-", mod>>})
CallEnded == pc \in {"returned", "raised"}

BrokenModuleIsolated ==
    \A i \in ScanAttempts :
        attempts[i].outcome = "error" =>
            /\ ReportsFor(attempts[i].unit) = 1
            /\ \A k \in DOMAIN installed_command_modules :
                   \E j \in ScanAttempts : attempts[j].unit = installed_command_modules[k]
            /\ \A m \in Range(installed_command_modules) :
                   modBehaviour[m].outcome = "ok" =>
                       modBehaviour[m].cmds \subseteq DOMAIN command_table

C5_BrokenModuleIsolated == CallEnded => BrokenModuleIsolated

\* the same, for the calls in which telemetry.set_exception returned
C5_WhenTelemetryReturns == pc = "returned" => BrokenModuleIsolated

(***************************************************************************)
(* C6 as stated: in every call, whatever the module phases did, the        *)
(* extension phase runs and every installed extension is attempted.        *)
(***************************************************************************)
C6_ExtensionsAlwaysAttempted ==
    CallEnded => Range(InstalledExtensions) \subseteq AttemptedIn("ext")

(***************************************************************************)
(* C7 as stated: when processing an extension fails at any step (path,     *)
(* module name, load), every extension after it in discovery order is      *)
(* still attempted.                                                        *)
(***************************************************************************)
ExtFailures == {"path_error", "modname_error", "error", "notfound"}

C7_ExtensionFailureIsolated ==
    pc = "returned" =>
        \A i \in DOMAIN attempts :
            (attempts[i].phase = "ext" /\ attempts[i].outcome \in ExtFailures) =>
                \A k \in DOMAIN InstalledExtensions :
                    InstalledExtensions[k] \in AttemptedIn("ext")

\* the same, for the failures inside the inner try (module name, load)
C7_InnerFailureIsolated ==
    pc = "returned" =>
        \A i \in DOMAIN attempts :
            (attempts[i].phase = "ext"
                 /\ attempts[i].outcome \in ExtFailures \ {"path_error"}
                 /\ \A j \in DOMAIN attempts : attempts[j].outcome # "path_error") =>
                Range(InstalledExtensions) \subseteq AttemptedIn("ext")

(***************************************************************************)
(* C8: _cli_command called with both operation and handler set, or with    *)
(* neither set, raises the authoring error (TypeError) and leaves the      *)
(* command table as it was; called with exactly one of them, a str         *)
(* operation or a callable handler, it raises no authoring error. "Set" is *)
(* Python's truth value, which is what the code tests.                     *)
(***************************************************************************)
C8_ExactlyOneOfOperationAndHandler ==
    cli_call.outcome # "none" =>
        LET operation_set == cli_call.operation \notin {None, ""}
            handler_set == cli_call.handler # None
        IN  /\ (operation_set <=> handler_set) =>
                   /\ cli_call.outcome = "TypeError"
                   /\ az_command_table = cli_call.before
            /\ \/ operation_set /\ ~handler_set /\ cli_call.operation = "mod#func"
               \/ handler_set /\ ~operation_set /\ cli_call.handler = "<function>"
               => cli_call.outcome # "TypeError"

\* a call with both given is refused on a loader that already holds a
\* command, and calls with one of the two were accepted
C8_Witness ==
    /\ cli_call.outcome = "TypeError"
    /\ cli_call.operation = "mod#func"
    /\ cli_call.handler = "<function>"
    /\ \E k \in DOMAIN az_command_table : az_command_table[k].operation = "mod#func"
    /\ \E k \in DOMAIN az_command_table : az_command_table[k].handler = "<function>"

(***************************************************************************)
(* C9: a valid _cli_command call inserts its entry iff the active version  *)
(* of the command's resource type (the profile itself when none is given)  *)
(* lies within the command's bounds, a bound it does not give being the    *)
(* loader's min_profile / max_profile; otherwise the call returns without  *)
(* raising and the command table is unchanged.                             *)
(***************************************************************************)
ActiveVersion(resource_type) ==
    IF resource_type = None THEN cloud_profile
    ELSE get_api_version(cloud_profile, resource_type)

WithinBounds(kwargs) ==
    LET lower == IF kwargs.min_api = None THEN min_profile ELSE kwargs.min_api
        upper == IF kwargs.max_api = None THEN max_profile ELSE kwargs.max_api
        v == Rank(ActiveVersion(kwargs.resource_type))
    IN  /\ lower = None \/ Rank(lower) <= v
        /\ upper = None \/ v <= Rank(upper)

C9_RegisteredIffSupported ==
    cli_call.outcome \in {"registered", "skipped"} =>
        LET key == NormalizeName(cli_call.name)
        IN  /\ cli_call.outcome = "registered" <=> WithinBounds(cli_call.kwargs)
            /\ cli_call.outcome = "registered" =>
                   /\ DOMAIN az_command_table = DOMAIN cli_call.before \cup {key}
                   /\ az_command_table[key] =
                          AzCliCommand(key, cli_call.operation, cli_call.handler)
                   /\ \A k \in DOMAIN cli_call.before \ {key} :
                          az_command_table[k] = cli_call.before[k]
            /\ cli_call.outcome = "skipped" => az_command_table = cli_call.before

\* on a loader that holds the command "a b", a registration that gives no
\* bound of its own and falls outside the loader's profile bounds is skipped
C9_Witness ==
    /\ cli_call.outcome = "skipped"
    /\ cli_call.kwargs.min_api = None
    /\ cli_call.kwargs.max_api = None
    /\ cli_call.before # EmptyDict
    /\ \E k \in DOMAIN az_command_table : az_command_table[k].name = <<"a", " ", "b">>

(***************************************************************************)
(* C10: get_op_handler ends with the invalid-operation error (ValueError), *)
(* returning nothing, whenever the reference does not hold exactly one '#' *)
(* or, the module being imported, a segment of the attribute chain is not  *)
(* an attribute of the object reached so far.                              *)
(***************************************************************************)
Count(s, ch) == Cardinality({i \in DOMAIN s : s[i] = ch})

\* the reference as imported: the resource type's prefix versioned
Versioned(op_ref) ==
    IF op_ref # <<>> /\ op_ref[1] = "p" THEN Replace(op_ref, <<"p">>, <<"p", ".", "v">>)
    ELSE op_ref

\* the characters before and after the only '#'
ModulePart(s) == SubSeq(s, 1, (CHOOSE i \in DOMAIN s : s[i] = "#") - 1)
AttrPart(s) == SubSeq(s, (CHOOSE i \in DOMAIN s : s[i] = "#") + 1, Len(s))

\* some prefix of the attribute chain reaches no object
RECURSIVE ChainBreaks(_, _)
ChainBreaks(obj, parts) ==
    /\ parts # <<>>
    /\ \/ getattr(obj, parts[1]) = AttributeError
       \/ ChainBreaks(getattr(obj, parts[1]), Tail(parts))

C10_InvalidOperation ==
    op_result.kind # "pending" =>
        LET ref == Versioned(operation)
        IN  /\ Count(ref, "#") # 1 => op_result.kind = "ValueError"
            /\ (/\ Count(ref, "#") = 1
                /\ import_module(ModulePart(ref)).kind = "ok"
                /\ ChainBreaks(import_module(ModulePart(ref)).value,
                               Split(AttrPart(ref), ".", 1, <<>>)))
               => op_result.kind = "ValueError"

\* a reference with two separators whose first two pieces resolve
C10_Witness ==
    /\ operation = <<"m", "#", "f", "#", "f">>
    /\ op_result.kind = "ValueError"

\* a reference whose second attribute is missing on the class reached
C10_WitnessMissingAttribute ==
    /\ operation = <<"m", "#", "C", ".", "m">>
    /\ op_result.kind = "ValueError"

(***************************************************************************)
(* C11: get_op_handler never returns a bound method: what it returns is    *)
(* the plain function the attribute chain ends at, as found, or the        *)
(* underlying function of the bound method it ends at; when the chain ends *)
(* at any other kind of object (a class) it raises the invalid-operation   *)
(* error instead of returning that object.                                 *)
(***************************************************************************)
PlainFunctions == {"function m.f", "function p.v.f", "function m.C.f"}
BoundMethods == {"bound method m.C.k"}
UnderlyingFunction(method) == IF method = "bound method m.C.k" THEN "function m.C.k" ELSE None

\* the object the attribute chain ends at, AttributeError when it breaks
RECURSIVE ChainEnd(_, _)
ChainEnd(obj, parts) ==
    IF parts = <<>> THEN obj
    ELSE IF getattr(obj, parts[1]) = AttributeError THEN AttributeError
    ELSE ChainEnd(getattr(obj, parts[1]), Tail(parts))

\* the chain's end for a reference with one '#' and an importable module
Resolves(ref) ==
    /\ Count(ref, "#") = 1
    /\ import_module(ModulePart(ref)).kind = "ok"

FinalObject(ref) ==
    ChainEnd(import_module(ModulePart(ref)).value, Split(AttrPart(ref), ".", 1, <<>>))

C11_NeverABoundMethod ==
    LET ref == Versioned(operation)
    IN  /\ op_result.kind = "return" =>
              /\ op_result.value \notin BoundMethods
              /\ Resolves(ref)
              /\ \/ FinalObject(ref) \in PlainFunctions /\ op_result.value = FinalObject(ref)
                 \/ FinalObject(ref) \in BoundMethods
                        /\ op_result.value = UnderlyingFunction(FinalObject(ref))
        /\ (/\ op_result.kind # "pending"
            /\ Resolves(ref)
            /\ FinalObject(ref) \notin PlainFunctions \cup BoundMethods)
           => op_result.kind = "ValueError"

\* a reference to a bound method: its function is what comes back
C11_Witness ==
    /\ operation = <<"m", "#", "C", ".", "k">>
    /\ op_result = [kind |-> "return", value |-> "function m.C.k"]

\* a reference ending at a class: nothing comes back
C11_WitnessClass ==
    /\ operation = <<"m", "#", "C">>
    /\ op_result.kind = "ValueError"

(***************************************************************************)
(* C12 as stated: in a call whose root command is on the denylist, though  *)
(* a module of that name is installed, no targeted load is attempted,      *)
(* every installed module not on the denylist is attempted by the fallback *)
(* scan, and the denylisted module is loaded in neither phase.             *)
(***************************************************************************)
DenylistedRootScansAll ==
    root_command \in BLACKLISTED_MODS =>
        /\ AttemptedIn("targeted") = {}
        /\ Range(DiscoverModules) \subseteq AttemptedIn("scan")
        /\ \A i \in DOMAIN attempts : attempts[i].unit \notin BLACKLISTED_MODS
        /\ \A c \in DOMAIN command_table : command_table[c].loader \notin BLACKLISTED_MODS

C12_DenylistedRootScansAll == CallEnded => DenylistedRootScansAll

\* the same, for the calls in which telemetry.set_exception returned
C12_WhenTelemetryReturns == pc = "returned" => DenylistedRootScansAll

\* a returned call with a denylisted root whose module is installed
C12_ReturnedWitness ==
    /\ pc = "returned"
    /\ root_command \in BLACKLISTED_MODS
    /\ namespace_ok
    /\ modBehaviour[root_command].outcome = "ok"
    /\ Len(attempts) > 2

(***************************************************************************)
(* C13: on a loader whose command table is empty when the call starts,     *)
(* with a root command not on the denylist: if the targeted load of the    *)
(* module named by the root command yields at least one command, the       *)
(* fallback scan is skipped, no other built-in module is attempted in the  *)
(* call and every entry of cmd_to_mod_map names that module; if it yields  *)
(* no command (the module is not found, or hands over none), the fallback  *)
(* scan runs over the installed modules.                                   *)
(***************************************************************************)
\* the commands the module named by a root command hands over
Yield(root) ==
    IF root \in DOMAIN modBehaviour /\ modBehaviour[root].outcome = "ok"
    THEN modBehaviour[root].cmds
    ELSE {}

LoadRaises(root) == root \in DOMAIN modBehaviour /\ modBehaviour[root].outcome = "error"

NonDenylistedRoot == root_command # None /\ root_command \notin BLACKLISTED_MODS

\* the step of the targeted load, taken with an empty table
TargetedLoadOnEmptyTable ==
    (pc = "modules" /\ DOMAIN command_table = {} /\ DOMAIN cmd_to_mod_map = {}
         /\ NonDenylistedRoot /\ ~LoadRaises(root_command)) =>
        /\ Yield(root_command) # {} =>
               /\ pc' = "extensions"
               /\ DOMAIN command_table' = Yield(root_command)
               /\ DOMAIN cmd_to_mod_map' = Yield(root_command)
               /\ \A c \in DOMAIN cmd_to_mod_map' : cmd_to_mod_map'[c] = root_command
        /\ Yield(root_command) = {} =>
               /\ pc' = "scan"
               /\ installed_command_modules' = DiscoverModules
               /\ scan_i' = 1

\* once the scan is skipped the call attempts no built-in module and leaves
\* cmd_to_mod_map alone
AfterModulePhase ==
    pc \in {"extensions", "extloop", "return"} =>
        /\ cmd_to_mod_map' = cmd_to_mod_map
        /\ \A i \in DOMAIN attempts' : i > Len(attempts) => attempts'[i].phase = "ext"

TargetedLoadSufficed ==
    (/\ attempts # <<>>
     /\ attempts[1].phase = "targeted"
     /\ attempts[1].outcome = "ok"
     /\ Yield(attempts[1].unit) # {}) =>
        /\ AttemptedIn("scan") = {}
        /\ pc # "scan"

C13_WitnessFallback ==
    /\ pc = "scan"
    /\ attempts = <<Attempt("targeted", "zz", "notfound")>>
    /\ DOMAIN command_table = {}
    /\ installed_command_modules = <<"m1", "m2">>

(***************************************************************************)
(* C14 as stated: in every call of load_command_table, a repeated call on  *)
(* a loader whose table already holds entries included, when the targeted  *)
(* load contributed no command (root command absent or denylisted, its     *)
(* module not found or empty) the fallback scan enumerates the installed   *)
(* command modules and attempts each.                                      *)
(***************************************************************************)
TargetedContributedNothing ==
    \/ root_command = None
    \/ root_command \in BLACKLISTED_MODS
    \/ /\ attempts # <<>>
       /\ attempts[1].phase = "targeted"
       /\ attempts[1].outcome \in {"ok", "notfound"}
       /\ Yield(attempts[1].unit) = {}

C14_FallbackWheneverNothingLoaded ==
    (pc = "returned" /\ TargetedContributedNothing) =>
        Range(DiscoverModules) \subseteq AttemptedIn("scan")

\* what the code does instead: after a targeted load the scan is skipped
\* whenever the table holds anything, whoever put it there
C14_ScanSkippedOnNonEmptyTable ==
    [][(pc = "modules" /\ NonDenylistedRoot /\ ~LoadRaises(root_command)
            /\ DOMAIN command_table # {}) => pc' = "extensions"]_vars

\* a returned call that loaded nothing for its root and scanned nothing,
\* though modules are installed
C14_ScanSkipped ==
    /\ pc = "returned"
    /\ attempts = <<Attempt("targeted", "zz", "notfound")>>
    /\ AttemptedIn("scan") = {}
    /\ DiscoverModules # <<>>

(***************************************************************************)
(* C15 as stated: when telemetry.set_exception itself raises while the     *)
(* fallback scan reports a broken module, loading is not interrupted: the  *)
(* modules after it in discovery order are still attempted and the         *)
(* extension phase still runs.                                             *)
(***************************************************************************)
\* the last thing the call did was to report a module of the scan, and the
\* report did not return
TelemetryReportRaised ==
    /\ attempts # <<>>
    /\ attempts[Len(attempts)] = Attempt("scan", attempts[Len(attempts)].unit, "error")
    /\ telemetry # <<>>
    /\ telemetry[Len(telemetry)] = FaultType(attempts[Len(attempts)].unit)
    /\ pc = "raised"

\* _update_command_table_from_extensions was entered
ExtensionPhaseRan ==
    \/ extensions # <<>>
    \/ \E k \in DOMAIN logs : logs[k] = Log("warning", "extensions")

C15_TelemetryFailureIsolated ==
    TelemetryReportRaised =>
        /\ Range(installed_command_modules) \subseteq AttemptedIn("scan")
        /\ ExtensionPhaseRan

\* the report of the first scanned module raised: the second was never tried
C15_LaterModuleSkipped ==
    /\ TelemetryReportRaised
    /\ attempts[Len(attempts)].unit = "m1"
    /\ "m2" \notin AttemptedIn("scan")
    /\ modBehaviour["m2"].outcome = "ok"

(***************************************************************************)
(* C16 as stated: when loading a named module or extension raises          *)
(* ModuleNotFoundError, no error-level or warning-level log entry and no   *)
(* telemetry report is produced, the command table and cmd_to_mod_map are  *)
(* unchanged, and loading proceeds: a targeted load falls through to the   *)
(* fallback scan, the scan and the extension phase go on with the next     *)
(* unit. An error log and a telemetry report are produced only for a unit  *)
(* that is present but fails to load.                                      *)
(***************************************************************************)
\* the step made one load attempt, and the unit was not found
NotFoundStep ==
    /\ Len(attempts') = Len(attempts) + 1
    /\ attempts'[Len(attempts')].outcome = "notfound"

AbsenceIsSilent ==
    NotFoundStep =>
        /\ \A k \in DOMAIN logs' : k > Len(logs) => logs'[k].level = "debug"
        /\ telemetry' = telemetry
        /\ command_table' = command_table
        /\ cmd_to_mod_map' = cmd_to_mod_map

ScanAndExtensionsGoOn ==
    NotFoundStep =>
        LET a == attempts'[Len(attempts')]
        IN  /\ a.phase = "scan" => pc' = "scan" /\ scan_i' = scan_i + 1
            /\ a.phase = "ext" => pc' = "extloop" /\ ext_i' = ext_i + 1

TargetedFallsThrough ==
    (NotFoundStep /\ attempts'[Len(attempts')].phase = "targeted") =>
        /\ pc' = "scan"
        /\ installed_command_modules' = DiscoverModules

\* error-level log entries and telemetry reports name units whose load
\* raised another exception than ModuleNotFoundError
ReportedOnlyWhenBroken ==
    /\ \A k \in DOMAIN logs :
           logs[k].level = "error" =>
               \E i \in DOMAIN attempts :
                   attempts[i].unit = logs[k].unit /\ attempts[i].outcome = "error"
    /\ \A k \in DOMAIN telemetry :
           \E i \in DOMAIN attempts :
               /\ telemetry[k] = FaultType(attempts[i].unit)
               /\ attempts[i].outcome = "error"

C16_AbsenceSilentlyTolerated ==
    /\ [][AbsenceIsSilent]_vars
    /\ [][ScanAndExtensionsGoOn]_vars
    /\ [][TargetedFallsThrough]_vars
    /\ []ReportedOnlyWhenBroken

\* the claim without the fall-through of the targeted load
C16_ExceptTargetedFallThrough ==
    /\ [][AbsenceIsSilent]_vars
    /\ [][ScanAndExtensionsGoOn]_vars
    /\ []ReportedOnlyWhenBroken

\* the fall-through, on a loader whose table is empty
C16_FallThroughOnEmptyTable ==
    [][DOMAIN command_table = {} => TargetedFallsThrough]_vars

\* a targeted load found no module and the call went on without a scan
C16_NoFallThrough ==
    /\ pc = "extensions"
    /\ attempts = <<Attempt("targeted", "zz", "notfound")>>
    /\ logs = <<Log("debug", "zz")>>
    /\ DOMAIN command_table # {}

(***************************************************************************)
(* C17 as stated: whatever command name load_arguments is called with, one *)
(* with no entry in cmd_to_loader_map included, it registers the fixed     *)
(* overrides (resource_group_name, location, deployment_name, and the      *)
(* ignore marker for cmd) and then delegates to the base load_arguments.   *)
(***************************************************************************)
OverridesRegistered ==
    /\ "" \in DOMAIN argument_registry
    /\ \A k \in DOMAIN Overrides :
           /\ Overrides[k][1] \in DOMAIN argument_registry[""]
           /\ argument_registry[""][Overrides[k][1]] = Overrides[k][2]

OverrideEvents ==
    << <<"argument", "resource_group_name">>, <<"argument", "location">>,
       <<"argument", "deployment_name">>, <<"argument", "cmd">> >>

\* the call ended with the four registrations followed by the base step
OverridesThenBase ==
    /\ Len(la_events) >= 5
    /\ SubSeq(la_events, Len(la_events) - 4, Len(la_events))
           = OverrideEvents \o << <<"base load_arguments", la_command>> >>

C17_OverridesUnconditional ==
    la_pc = "done" => OverridesRegistered /\ OverridesThenBase

\* what the code does: for a command with contributing loaders the
\* overrides and the base step happen; for any other command nothing does
C17_OnlyWithContributingLoaders ==
    la_pc = "done" =>
        IF la_command \in DOMAIN cmd_to_loader_map
        THEN OverridesRegistered /\ OverridesThenBase
        ELSE la_events = <<>>

\* the first call, for a command no loader contributed to, changed nothing
C17_NothingRegistered ==
    /\ la_pc = "done"
    /\ la_command \notin DOMAIN cmd_to_loader_map
    /\ argument_registry = EmptyDict
    /\ la_events = <<>>

(***************************************************************************)
(* C18: for a command with contributing loaders, load_arguments runs the   *)
(* load_arguments of every loader of cmd_to_loader_map[command] in the     *)
(* list's order, merging that loader's argument registry and extra         *)
(* argument registry into its own right after the loader ran, so that for  *)
(* a key several loaders registered the last loader's entry wins; the      *)
(* overrides are registered after all merges and the base load_arguments   *)
(* runs last.                                                              *)
(***************************************************************************)
RECURSIVE LoaderEvents(_)
LoaderEvents(loaders) ==
    IF loaders = <<>> THEN <<>>
    ELSE << <<"load_arguments", loaders[1]>>,
            <<"merge arguments", loaders[1]>>,
            <<"merge extra arguments", loaders[1]>> >> \o LoaderEvents(Tail(loaders))

\* the positions in the list of the loaders that registered the key
Registering(loaders, field, key) ==
    {i \in DOMAIN loaders : key \in DOMAIN loader_registries[loaders[i]][field]}

LastRegistering(loaders, field, key) ==
    loaders[CHOOSE i \in Registering(loaders, field, key) :
                \A j \in Registering(loaders, field, key) : j <= i]

OverriddenDests == {Overrides[k][1] : k \in DOMAIN Overrides}

LastLoaderWins(loaders) ==
    /\ \A sc \in ArgScopes :
           Registering(loaders, "arguments", sc) # {} =>
               /\ sc \in DOMAIN argument_registry
               /\ LET theirs == loader_registries[LastRegistering(loaders, "arguments", sc)]
                                     .arguments[sc]
                  IN  IF sc = ""
                      THEN \A d \in DOMAIN theirs \ OverriddenDests :
                               argument_registry[sc][d] = theirs[d]
                      ELSE argument_registry[sc] = theirs
    /\ \A c \in ArgCommands :
           Registering(loaders, "extra", c) # {} =>
               /\ c \in DOMAIN extra_argument_registry
               /\ extra_argument_registry[c]
                      = loader_registries[LastRegistering(loaders, "extra", c)].extra[c]

C18_LoadersInOrderThenOverrides ==
    (la_pc = "done" /\ la_command \in DOMAIN cmd_to_loader_map) =>
        LET loaders == cmd_to_loader_map[la_command]
        IN  /\ la_events = LoaderEvents(loaders) \o OverrideEvents
                               \o << <<"base load_arguments", la_command>> >>
            /\ LastLoaderWins(loaders)
            /\ OverridesRegistered

\* two loaders registered the same scope and the same command's extra
\* arguments: the second one's entries are in the main registries
C18_Witness ==
    /\ la_pc = "done"
    /\ la_command \in DOMAIN cmd_to_loader_map
    /\ cmd_to_loader_map[la_command] = <<"L2", "L1">>
    /\ \A l \in Loaders : DOMAIN loader_registries[l].arguments = ArgScopes
    /\ \A l \in Loaders : DOMAIN loader_registries[l].extra = {"c1"}
    /\ argument_registry["c1"]["x"] = "L1"
    /\ argument_registry[""]["location"] = "get_location_type"
    /\ extra_argument_registry["c1"]["y"] = "L1"

(***************************************************************************)
(* C19: in every state a loader created empty can reach, every key of      *)
(* cmd_to_mod_map is a key of the command table; every entry of the table  *)
(* either has a cmd_to_mod_map entry naming the last built-in module that  *)
(* registered it or carries extension provenance; and loading an extension *)
(* never adds, removes or changes an entry of cmd_to_mod_map.              *)
(***************************************************************************)
\* the attempts of the running call in which a built-in module handed over
\* the command name
ModuleRegistrations(c) == {i \in Registrations(c) : attempts[i].phase # "ext"}

OwnershipConsistent ==
    /\ DOMAIN cmd_to_mod_map \subseteq DOMAIN command_table
    /\ \A c \in DOMAIN command_table :
           \/ command_table[c].command_source.type = "ExtensionCommandSource"
           \/ /\ c \in DOMAIN cmd_to_mod_map
              /\ cmd_to_mod_map[c] = command_table[c].loader
              /\ cmd_to_mod_map[c] \in Range(NamespaceModules)
    /\ \A c \in CmdNames :
           ModuleRegistrations(c) # {} =>
               /\ c \in DOMAIN cmd_to_mod_map
               /\ \E i \in ModuleRegistrations(c) :
                      /\ \A j \in ModuleRegistrations(c) : j <= i
                      /\ cmd_to_mod_map[c] = attempts[i].unit

\* a step of the extension phase
ExtensionsLeaveOwnership ==
    (pc \in {"extensions", "extloop"} \/ pc' \in {"extloop", "return"}) =>
        cmd_to_mod_map' = cmd_to_mod_map

C19_OwnershipMapConsistent ==
    /\ []OwnershipConsistent
    /\ [][ExtensionsLeaveOwnership]_vars

\* a returned table in which an extension replaced a module's command, whose
\* cmd_to_mod_map entry still names the module, next to a command that only
\* an extension registered and a command a module registered last
C19_Witness ==
    /\ pc = "returned"
    /\ \E c \in DOMAIN cmd_to_mod_map :
           /\ command_table[c].command_source.type = "ExtensionCommandSource"
           /\ cmd_to_mod_map[c] = "m2"
           /\ Cardinality(ModuleRegistrations(c)) = 2
    /\ \E c \in DOMAIN command_table : c \notin DOMAIN cmd_to_mod_map

(***************************************************************************)
(* C20: a unit's contribution is all-or-nothing: when loading a module or  *)
(* an extension raises any exception, the command table and cmd_to_mod_map *)
(* are what they were before the attempt, and no command of the failed     *)
(* unit, nor an extension provenance tag naming it, is in the table.       *)
(***************************************************************************)
\* the step made one load attempt, and it ended with an exception
FailedAttemptStep ==
    /\ Len(attempts') = Len(attempts) + 1
    /\ attempts'[Len(attempts')].outcome # "ok"

FailureContributesNothing ==
    FailedAttemptStep =>
        /\ command_table' = command_table
        /\ cmd_to_mod_map' = cmd_to_mod_map

\* what loading the unit of that name does
BehaviourOf(unit) ==
    IF unit \in DOMAIN modBehaviour THEN modBehaviour[unit]
    ELSE IF unit \in DOMAIN extBehaviour THEN extBehaviour[unit]
    ELSE [outcome |-> "notfound", cmds |-> {}]

\* every entry of the table, and every provenance tag, is of a unit that
\* loads, and every owner in cmd_to_mod_map is a module that loads
NothingOfFailedUnits ==
    /\ \A c \in DOMAIN command_table :
           /\ BehaviourOf(command_table[c].loader).outcome = "ok"
           /\ c \in BehaviourOf(command_table[c].loader).cmds
           /\ command_table[c].command_source.type = "ExtensionCommandSource" =>
                  BehaviourOf(command_table[c].command_source.extension_name).outcome = "ok"
    /\ \A c \in DOMAIN cmd_to_mod_map : modBehaviour[cmd_to_mod_map[c]].outcome = "ok"

C20_AllOrNothing ==
    /\ [][FailureContributesNothing]_vars
    /\ []NothingOfFailedUnits

\* a returned call in which a module and an extension raised after building
\* a command that another unit registered too
C20_Witness ==
    /\ pc = "returned"
    /\ \E i, j \in DOMAIN attempts :
           /\ attempts[i].phase = "scan"
           /\ attempts[i].outcome = "error"
           /\ modBehaviour[attempts[i].unit].cmds = {"c1"}
           /\ attempts[j].phase = "ext"
           /\ attempts[j].outcome = "error"
           /\ extBehaviour[UnitOf(attempts[j])].cmds = {"c1"}
    /\ "c1" \in DOMAIN command_table

====
